---- MODULE Spec2Model ----
(***************************************************************************)
(* Model of the Assignment 3 desktop application: the decorators of        *)
(* gui/decorators.py, the model adapters of models/, and the background    *)
(* dispatch of gui/main_window.py (one UI thread, worker threads, and the  *)
(* Tk after() queue as the only hand-off from a worker to the UI thread).  *)
(***************************************************************************)
EXTENDS Integers, Sequences, FiniteSets, TLC

(***************************************************************************)
(* Bounds                                                                  *)
(***************************************************************************)
\* longest string passed to a wrapped operation
MaxLen == 2
\* number of worker-thread slots the model keeps
MaxWorkers == 2
\* direct calls of wrapped operations made in a row
MaxCalls == 3
\* longest sequence of calls of the file handler
MaxFileCalls == 2

(***************************************************************************)
(* Python values                                                           *)
(***************************************************************************)
Chars == {"a", " "}

RECURSIVE StringsUpTo(_)
StringsUpTo(n) ==
  IF n = 0 THEN {<<>>}
  ELSE LET shorter == StringsUpTo(n - 1)
       IN shorter \cup {Append(s, c) : s \in {t \in shorter : Len(t) = n - 1}, c \in Chars}

Strings == StringsUpTo(MaxLen)

RECURSIVE lstrip(_)
lstrip(s) == IF s # <<>> /\ Head(s) = " " THEN lstrip(Tail(s)) ELSE s

RECURSIVE rstrip(_)
rstrip(s) ==
  IF s # <<>> /\ s[Len(s)] = " " THEN rstrip(SubSeq(s, 1, Len(s) - 1)) ELSE s

\* str.strip()
strip(s) == rstrip(lstrip(s))

\* every value is a record [t, s, f]: its type, its text, the file it came from
\* t is the type, s the characters a str (or the prompt an image was made
\* from) holds, f the file an image was read from; mode and size are those
\* of a PIL image
NoSize == <<0, 0>>
None == [t |-> "None", s |-> <<>>, f |-> "", mode |-> "", size |-> NoSize]
Str(s) == [t |-> "str", s |-> s, f |-> "", mode |-> "", size |-> NoSize]
\* an image generated by the text-to-image pipeline from a prompt
GenImage(p) == [t |-> "image", s |-> p, f |-> "", mode |-> "RGB", size |-> <<512, 512>>]
\* an image decoded from the file named f
Picture(f, mode, size) == [t |-> "image", s |-> <<>>, f |-> f, mode |-> mode, size |-> size]
\* a plain three-channel picture of one pixel
FileImage(f) == Picture(f, "RGB", <<1, 1>>)
\* the caption the captioning model decodes for an image
Caption(img) == [t |-> "caption", s |-> img.s, f |-> img.f, mode |-> "", size |-> NoSize]
\* the object standing for self in args[0]
Self == [t |-> "self", s |-> <<>>, f |-> "", mode |-> "", size |-> NoSize]

\* Python truthiness of the values above: None and "" are falsy
Truthy(v) == ~(v.t = "None" \/ (v.t = "str" /\ v.s = <<>>))

\* the test of decorators.py line 15
IsBlank(v) == ~Truthy(v) \/ (v.t = "str" /\ strip(v.s) = <<>>)

(***************************************************************************)
(* Outcome of a call: a returned value or a raised exception               *)
(***************************************************************************)
Ret(v) == [kind |-> "ret", val |-> v, exc |-> "", msg |-> ""]
Raise(e, m) == [kind |-> "raise", val |-> None, exc |-> e, msg |-> m]

\* a call threads a call state cs through the layers and yields an outcome
Result(cs, res) == [cs |-> cs, res |-> res]

\* a line written to standard output by print()
Emit(cs, line) == [cs EXCEPT !.out = Append(@, line)]

(***************************************************************************)
(* gui/decorators.py                                                       *)
(***************************************************************************)
\* the parameter a wrapped function binds: second positional argument, or
\* else the keyword argument, or else missing
Primary(args, kwargs) ==
  IF Len(args) > 1 THEN args[2]
  ELSE IF Len(kwargs) > 0 THEN kwargs[1][2]
  ELSE None

\* func(*args, **kwargs) for the function object named func
RECURSIVE Apply(_, _, _, _)

\* validate_input running the function before it looks at the input
validate_input_after_call(func, cs, args, kwargs) ==
  LET r == Apply(func, cs, args, kwargs)
  IN IF Len(args) > 1 /\ IsBlank(args[2])
     THEN Result(r.cs, Raise("ValueError", "Input cannot be empty"))
     ELSE r

validate_input(func, cs, args, kwargs) ==
  IF Len(args) > 1 /\ IsBlank(args[2])
  THEN Result(cs, Raise("ValueError", "Input cannot be empty"))
  ELSE Apply(func, cs, args, kwargs)

\* log_operation returning None where the function raised
log_operation_swallowing(func, name, cs, args, kwargs) ==
  LET r == Apply(func, Emit(cs, <<"LOG", "Starting", name>>), args, kwargs)
  IN IF r.res.kind = "ret"
     THEN Result(Emit(r.cs, <<"LOG", "completed", name>>), r.res)
     ELSE Result(Emit(r.cs, <<"LOG", "failed", name>>), Ret(None))

log_operation(func, name, cs, args, kwargs) ==
  LET r == Apply(func, Emit(cs, <<"LOG", "Starting", name>>), args, kwargs)
  IN IF r.res.kind = "ret"
     THEN Result(Emit(r.cs, <<"LOG", "completed", name>>), r.res)
     ELSE Result(Emit(r.cs, <<"LOG", "failed", name>>), r.res)

\* error_handler printing the failure and letting it through
error_handler_reraising(func, error_message, cs, args, kwargs) ==
  LET r == Apply(func, cs, args, kwargs)
  IN IF r.res.kind = "raise"
     THEN Result(Emit(r.cs, <<"ERROR", error_message, r.res.msg>>), r.res)
     ELSE r

\* an argument as the caller passes it to a cached operation: the value v
\* of an object that lives at address at
Obj(v, at) == [v |-> v, at |-> at]

\* repr of an argument: a str shows its characters; a PIL image shows its
\* mode, its size and its address; self shows its class
repr(o) ==
  CASE o.v.t = "str" -> <<"str", o.v.s>>
    [] o.v.t = "image" -> <<"image", o.v.mode, o.v.size, o.at>>
    [] OTHER -> <<o.v.t>>

\* str(args): the reprs of the elements in order
str_args(args) == [i \in 1..Len(args) |-> repr(args[i])]

\* str(kwargs): the names with the reprs of the values
str_kwargs(kwargs) == [i \in 1..Len(kwargs) |-> <<kwargs[i][1], repr(kwargs[i][2])>>]

\* f"{func.__name__}_{hash(str(args) + str(kwargs))}"; hash is a function
\* of the string within one process
cache_key(name, args, kwargs) == <<name, str_args(args), str_kwargs(kwargs)>>

\* cache_key in cache
InCache(c, key) == \E i \in 1..Len(c) : c[i].key = key

\* cache[cache_key]
CacheGet(c, key) == c[CHOOSE i \in 1..Len(c) : c[i].key = key].val

\* cache[cache_key] = result
CacheSet(c, key, val) ==
  IF InCache(c, key)
  THEN [i \in 1..Len(c) |-> IF c[i].key = key THEN [key |-> key, val |-> val] ELSE c[i]]
  ELSE Append(c, [key |-> key, val |-> val])

cache_result(func, name, cs, args, kwargs) ==
  LET key == cache_key(name, args, kwargs)
  IN IF InCache(cs.cache, key)
     THEN Result(Emit(cs, <<"CACHE", "Returning", name>>), Ret(CacheGet(cs.cache, key)))
     ELSE LET r == Apply(func, cs, args, kwargs)
          IN IF r.res.kind = "raise" THEN r
             ELSE Result(Emit([r.cs EXCEPT !.cache = CacheSet(@, key, r.res.val)],
                              <<"CACHE", "Cached", name>>),
                         r.res)

error_handler(func, error_message, cs, args, kwargs) ==
  LET r == Apply(func, cs, args, kwargs)
  IN IF r.res.kind = "raise"
     THEN Result(Emit(r.cs, <<"ERROR", error_message, r.res.msg>>), Ret(None))
     ELSE r

(***************************************************************************)
(* models/base_model.py, models/text_to_image.py, models/image_caption.py  *)
(***************************************************************************)
\* ModelManager holds None until the adapter is first needed
NoAdapter ==
  [cls |-> "None", is_loaded |-> FALSE, load_time |-> "None", handle |-> "None"]

\* BaseAIModel.__init__ for an adapter of class cls
NewAdapter(cls) ==
  [cls |-> cls, is_loaded |-> FALSE, load_time |-> "None", handle |-> "None"]

\* what the external model library does on this call
Envs == [load : {"ok", "fail"}, infer : {"ok", "fail"}]

T2I_load_model(cs) ==
  LET cs1 == [cs EXCEPT !.loads = @ + 1]
  IN IF cs.env.load = "ok"
     THEN Result([cs1 EXCEPT !.ad.handle = "set"], Ret(None))
     ELSE Result(cs1, Raise("RuntimeError", "Failed to load text-to-image model"))

Cap_load_model(cs) ==
  LET cs1 == [cs EXCEPT !.loads = @ + 1]
  IN IF cs.env.load = "ok"
     THEN Result([cs1 EXCEPT !.ad.handle = "set"], Ret(None))
     ELSE Result(cs1, Raise("RuntimeError", "Failed to load image captioning model"))

\* _load_model setting the loaded flag and the load time itself, before the
\* library call
load_model_marking_first(cs) ==
  LET marked == [cs EXCEPT !.ad.is_loaded = TRUE, !.ad.load_time = "set"]
  IN IF cs.ad.cls = "TextToImageModel" THEN T2I_load_model(marked) ELSE Cap_load_model(marked)

\* self._load_model(), bound by the class of the adapter
load_model(cs) ==
  IF cs.ad.cls = "TextToImageModel" THEN T2I_load_model(cs) ELSE Cap_load_model(cs)

\* _ensure_loaded loading whatever the flag says
ensure_loaded_every_call(cs) ==
  LET r == load_model(Emit(cs, <<"Loading">>))
  IN IF r.res.kind = "raise" THEN r
     ELSE Result(Emit([r.cs EXCEPT !.ad.load_time = "set", !.ad.is_loaded = TRUE],
                      <<"Model loaded">>),
                 Ret(None))

\* BaseAIModel._ensure_loaded
ensure_loaded(cs) ==
  IF ~cs.ad.is_loaded
  THEN LET r == load_model(Emit(cs, <<"Loading">>))
       IN IF r.res.kind = "raise" THEN r
          ELSE Result(Emit([r.cs EXCEPT !.ad.load_time = "set", !.ad.is_loaded = TRUE],
                           <<"Model loaded">>),
                      Ret(None))
  ELSE Result(cs, Ret(None))

\* the undecorated body of TextToImageModel.process
T2I_process_body(cs, args, kwargs) ==
  LET text_prompt == Primary(args, kwargs)
      r == ensure_loaded([cs EXCEPT !.runs = @ + 1])
  IN IF r.res.kind = "raise" THEN r
     ELSE IF cs.env.infer = "ok" /\ text_prompt.t = "str"
          THEN Result(r.cs, Ret(GenImage(text_prompt.s)))
          ELSE Result(r.cs, Raise("RuntimeError", "pipeline failed"))

\* the undecorated body of ImageCaptionModel.process
Cap_process_body(cs, args, kwargs) ==
  LET image == Primary(args, kwargs)
      r == ensure_loaded([cs EXCEPT !.runs = @ + 1])
  IN IF r.res.kind = "raise" THEN r
     ELSE IF cs.env.infer = "ok" /\ image.t = "image"
          THEN Result(r.cs, Ret(Caption(image)))
          ELSE Result(r.cs, Raise("RuntimeError", "generate failed"))

\* @error_handler("Text-to-image generation failed") def process
T2I_process_handled(cs, args, kwargs) ==
  error_handler("T2I_process_body", "Text-to-image generation failed", cs, args, kwargs)

\* @log_operation over the above
T2I_process_logged(cs, args, kwargs) ==
  log_operation("T2I_process_handled", "process", cs, args, kwargs)

\* TextToImageModel.process as decorated: @validate_input over the above
T2I_process(cs, args, kwargs) ==
  validate_input("T2I_process_logged", cs, args, kwargs)

\* @error_handler("Image captioning failed") def process
Cap_process_handled(cs, args, kwargs) ==
  error_handler("Cap_process_body", "Image captioning failed", cs, args, kwargs)

\* @log_operation over the above
Cap_process_logged(cs, args, kwargs) ==
  log_operation("Cap_process_handled", "process", cs, args, kwargs)

\* ImageCaptionModel.process as decorated: @validate_input over the above
Cap_process(cs, args, kwargs) ==
  validate_input("Cap_process_logged", cs, args, kwargs)

\* the caption of image img under the conditional text
CondCaption(img, text) ==
  [t |-> "caption", s |-> text, f |-> img.f, mode |-> img.mode, size |-> img.size]

\* the undecorated body of ImageCaptionModel.process_with_conditional_text,
\* its arguments passed as objects
process_with_conditional_text_body(cs, args, kwargs) ==
  LET image == args[2].v
      conditional_text == IF Len(args) > 2 THEN args[3].v.s ELSE <<>>
      r == ensure_loaded([cs EXCEPT !.runs = @ + 1])
  IN IF r.res.kind = "raise" THEN r
     ELSE IF cs.env.infer = "ok" /\ image.t = "image"
          THEN Result(r.cs, Ret(CondCaption(image, conditional_text)))
          ELSE Result(r.cs, Raise("RuntimeError", "generate failed"))

\* ImageCaptionModel.process_with_conditional_text as decorated
process_with_conditional_text(cs, args, kwargs) ==
  cache_result("process_with_conditional_text_body", "process_with_conditional_text",
               cs, args, kwargs)

(***************************************************************************)
(* gui/main_window.py: ModelManager                                        *)
(***************************************************************************)
\* _get_text_to_image_model / _get_image_caption_model: construct on first use
get_model(cs, cls) == IF cs.ad.cls = "None" THEN [cs EXCEPT !.ad = NewAdapter(cls)] ELSE cs

process_text_to_image_body(cs, args, kwargs) ==
  T2I_process(get_model(cs, "TextToImageModel"), <<Self, Primary(args, kwargs)>>, <<>>)

\* ModelManager.process_text_to_image as decorated
process_text_to_image(cs, args, kwargs) ==
  log_operation("process_text_to_image_body", "process_text_to_image", cs, args, kwargs)

process_image_to_caption_body(cs, args, kwargs) ==
  Cap_process(get_model(cs, "ImageCaptionModel"), <<Self, Primary(args, kwargs)>>, <<>>)

\* ModelManager.process_image_to_caption as decorated
process_image_to_caption(cs, args, kwargs) ==
  log_operation("process_image_to_caption_body", "process_image_to_caption", cs, args, kwargs)

\* a wrapped operation that counts its executions and returns its input
counted_op(cs, args, kwargs) ==
  Result([cs EXCEPT !.runs = @ + 1], Ret(Primary(args, kwargs)))

\* the exceptions an operation can raise
Exceptions == {"ValueError", "RuntimeError", "OSError"}

\* a wrapped operation that counts its executions and then raises what the
\* environment makes it raise, or returns its input
raising_op(cs, args, kwargs) ==
  LET cs1 == [cs EXCEPT !.runs = @ + 1]
  IN IF cs.env.raises = ""
     THEN Result(cs1, Ret(Primary(args, kwargs)))
     ELSE Result(cs1, Raise(cs.env.raises, "operation failed"))

\* the functions the decorators of this program wrap
Apply(func, cs, args, kwargs) ==
  CASE func = "T2I_process_body" -> T2I_process_body(cs, args, kwargs)
    [] func = "T2I_process_handled" -> T2I_process_handled(cs, args, kwargs)
    [] func = "T2I_process_logged" -> T2I_process_logged(cs, args, kwargs)
    [] func = "Cap_process_body" -> Cap_process_body(cs, args, kwargs)
    [] func = "Cap_process_handled" -> Cap_process_handled(cs, args, kwargs)
    [] func = "Cap_process_logged" -> Cap_process_logged(cs, args, kwargs)
    [] func = "process_text_to_image_body" -> process_text_to_image_body(cs, args, kwargs)
    [] func = "process_image_to_caption_body" -> process_image_to_caption_body(cs, args, kwargs)
    [] func = "counted_op" -> counted_op(cs, args, kwargs)
    [] func = "raising_op" -> raising_op(cs, args, kwargs)
    [] func = "process_with_conditional_text_body" ->
         process_with_conditional_text_body(cs, args, kwargs)

\* the call state a call starts from: adapter ad, library behaviour env
CallState(ad, env) == [ad |-> ad, env |-> env, out |-> <<>>, runs |-> 0, loads |-> 0]

\* the same for a call of a cached operation whose cache holds c
CachedCallState(ad, env, c) ==
  [ad |-> ad, env |-> env, out |-> <<>>, runs |-> 0, loads |-> 0, cache |-> c]

(***************************************************************************)
(* utils/file_handler.py                                                   *)
(***************************************************************************)
\* the paths the dialogs can name: containing directory and suffix, the
\* suffix as Path.suffix gives it, character by character
Files ==
  [f \in {"photo.png", "notes.txt", "scan.JPG", "anim.gif", "shot.Png"} |->
     [dir    |-> IF f \in {"photo.png", "notes.txt"} THEN "pics" ELSE "docs",
      suffix |-> CASE f = "photo.png" -> <<".", "p", "n", "g">>
                   [] f = "notes.txt" -> <<".", "t", "x", "t">>
                   [] f = "scan.JPG"  -> <<".", "J", "P", "G">>
                   [] f = "anim.gif"  -> <<".", "g", "i", "f">>
                   [] f = "shot.Png"  -> <<".", "P", "n", "g">>]]

\* str.lower on the characters that occur in the suffixes
lower_char(c) ==
  CASE c = "P" -> "p" [] c = "N" -> "n" [] c = "G" -> "g" [] c = "J" -> "j"
    [] OTHER -> c

lower(s) == [i \in 1..Len(s) |-> lower_char(s[i])]

\* what the file system holds under a path: a decodable image of a mode
\* and a size, bytes PIL cannot decode, or nothing
Holds(mode, size) == [st |-> "ok", mode |-> mode, size |-> size]
Corrupt == [st |-> "corrupt", mode |-> "", size |-> NoSize]
Missing == [st |-> "missing", mode |-> "", size |-> NoSize]
\* a text file, which PIL cannot decode either
TextFile == [st |-> "text", mode |-> "", size |-> NoSize]

\* what the window finds under a path when it accesses it
FileStates == {Holds("RGB", <<1, 1>>), Corrupt, Missing}

\* what askopenfilename returns in the window: "" when cancelled, else a
\* file the default "Image files" filter lists
BrowseChoices == {""} \cup {f \in DOMAIN Files : Files[f].suffix = <<".", "p", "n", "g">>}

supported_image_formats ==
  {<<".", "j", "p", "g">>, <<".", "j", "p", "e", "g">>, <<".", "p", "n", "g">>,
   <<".", "b", "m", "p">>, <<".", "t", "i", "f", "f">>, <<".", "w", "e", "b", "p">>}

\* _is_valid_image_file comparing the suffix as it is spelled
is_valid_image_file_case_sensitive(f) == Files[f].suffix \in supported_image_formats

is_valid_image_file(f) == lower(Files[f].suffix) \in supported_image_formats

\* _update_last_directory keeping the directory it has
update_last_directory_keeping(dir, f) == dir

\* _update_last_directory: the parent of a file a dialog returned exists
update_last_directory(dir, f) == Files[f].dir

\* browse_image_file with the dialog returning choice: the outcome and the
\* remembered directory afterwards
browse_image_file(choice, dir) ==
  IF choice # ""
  THEN IF is_valid_image_file(choice)
       THEN [res |-> Ret(Str(<<>>)), path |-> choice, dir |-> update_last_directory(dir, choice)]
       ELSE [res |-> Raise("ValueError", "Unsupported image format"), path |-> "", dir |-> dir]
  ELSE [res |-> Ret(None), path |-> "", dir |-> dir]

\* the modes load_image converts to RGB (line 123)
converted_modes == {"RGBA", "LA", "P"}

\* lines 123-124 converting only images with an alpha channel
normalize_alpha_only(mode) == IF mode \in {"RGBA", "LA"} THEN "RGB" ELSE mode

\* lines 123-124: the mode of the image load_image returns
normalize(mode) == IF mode \in converted_modes THEN "RGB" ELSE mode

\* load_image looking at the suffix before it looks for the file
load_image_suffix_first(f, fs) ==
  IF ~is_valid_image_file(f) THEN Raise("ValueError", "Unsupported image format")
  ELSE IF fs.st = "missing" THEN Raise("FileNotFoundError", "Image file not found")
  ELSE IF fs.st # "ok" THEN Raise("ValueError", "Failed to load image")
  ELSE Ret(Picture(f, normalize(fs.mode), fs.size))

\* load_image of the file named f while the file system holds fs under f
load_image(f, fs) ==
  IF fs.st = "missing" THEN Raise("FileNotFoundError", "Image file not found")
  ELSE IF ~is_valid_image_file(f) THEN Raise("ValueError", "Unsupported image format")
  ELSE IF fs.st # "ok" THEN Raise("ValueError", "Failed to load image")
  ELSE Ret(Picture(f, normalize(fs.mode), fs.size))

\* the format PIL's Image.save chooses from the lowered suffix of the path,
\* "" where no writer is registered for it
save_format(f) ==
  LET ext == lower(Files[f].suffix)
  IN CASE ext = <<".", "p", "n", "g">> -> "PNG"
       [] ext = <<".", "j", "p", "g">> -> "JPEG"
       [] ext = <<".", "g", "i", "f">> -> "GIF"
       [] OTHER -> ""

\* the modes the writer of a format accepts
writable_modes(format) ==
  CASE format = "PNG" -> {"RGB", "RGBA", "L", "LA", "P"}
    [] format = "JPEG" -> {"RGB", "L"}
    [] format = "GIF" -> {"RGB", "RGBA", "L", "LA", "P"}
    [] OTHER -> {}

\* the mode an image of mode mode has when the written file is opened again
stored_mode(format, mode) ==
  IF format = "GIF" THEN (IF mode = "L" THEN "L" ELSE "P") ELSE mode

\* a path as a returned value
PathValue(f) == [t |-> "path", s |-> <<>>, f |-> f, mode |-> "", size |-> NoSize]

\* what the file system does with a write: it completes, the file cannot
\* be opened for writing, or the write stops with part of the file written
WriteOutcomes == {"ok", "denied", "partial"}

\* save_image remembering the directory before it writes
save_image_remembering_first(image, choice, dir, d, write) ==
  IF choice = "" THEN [res |-> Ret(None), disk |-> d, dir |-> dir]
  ELSE LET format == save_format(choice)
           failed == [res |-> Raise("ValueError", "Failed to save image"),
                      dir |-> update_last_directory(dir, choice)]
       IN IF format = "" \/ write = "denied"
          THEN failed @@ [disk |-> d]
          ELSE IF image.mode \notin writable_modes(format) \/ write = "partial"
          THEN failed @@ [disk |-> [d EXCEPT ![choice] = Corrupt]]
          ELSE [res |-> Ret(PathValue(choice)),
                disk |-> [d EXCEPT ![choice] = Holds(stored_mode(format, image.mode), image.size)],
                dir |-> update_last_directory(dir, choice)]

\* save_image(image) with the save dialog returning choice while the file
\* system holds d and answers the write with write: the outcome, the file
\* system and the remembered directory afterwards
save_image(image, choice, dir, d, write) ==
  IF choice = "" THEN [res |-> Ret(None), disk |-> d, dir |-> dir]
  ELSE LET format == save_format(choice)
           failed == [res |-> Raise("ValueError", "Failed to save image"), dir |-> dir]
       IN IF format = "" \/ write = "denied"
          THEN failed @@ [disk |-> d]
          ELSE IF image.mode \notin writable_modes(format) \/ write = "partial"
          THEN failed @@ [disk |-> [d EXCEPT ![choice] = Corrupt]]
          ELSE [res |-> Ret(PathValue(choice)),
                disk |-> [d EXCEPT ![choice] = Holds(stored_mode(format, image.mode), image.size)],
                dir |-> update_last_directory(dir, choice)]

\* save_text(text) with the save dialog returning choice: open(path, 'w')
\* truncates the file, f.write(text) fills it
save_text(text, choice, dir, d, write) ==
  IF choice = "" THEN [res |-> Ret(None), disk |-> d, dir |-> dir]
  ELSE LET failed == [res |-> Raise("ValueError", "Failed to save text"), dir |-> dir]
       IN IF write = "denied"
          THEN failed @@ [disk |-> d]
          ELSE IF write = "partial"
          THEN failed @@ [disk |-> [d EXCEPT ![choice] = Corrupt]]
          ELSE [res |-> Ret(PathValue(choice)),
                disk |-> [d EXCEPT ![choice] = TextFile],
                dir |-> update_last_directory(dir, choice)]

(***************************************************************************)
(* utils/logger.py: the AppLogger singleton.  The record holds the two     *)
(* class attributes (_instance, _logger as seen through the instance), the *)
(* handler list of logging.getLogger('AIModelApp'), and counters of what   *)
(* has run: objects allocated by super().__new__, runs of _setup_logger,   *)
(* constructions, and the object the last AppLogger() returned.            *)
(***************************************************************************)
NoLogger ==
  [instance |-> 0, logger |-> "None", handlers |-> <<>>,
   created |-> 0, setups |-> 0, returned |-> 0, n |-> 0]

\* AppLogger.__new__: allocate only while _instance is None
AppLogger_new(lg) ==
  LET made == IF lg.instance = 0
              THEN [lg EXCEPT !.created = @ + 1, !.instance = lg.created + 1]
              ELSE lg
  IN [made EXCEPT !.returned = made.instance]

\* AppLogger._setup_logger: bind the named logger, clear its handlers, add a
\* console handler, and a file handler unless opening the log file fails.
\* A handler is tagged with the run of _setup_logger that created it.
setup_logger(lg, fileOk) ==
  LET run == lg.setups + 1
      console == [kind |-> "console", made |-> run]
      file == [kind |-> "file", made |-> run]
  IN [lg EXCEPT !.logger = "AIModelApp",
                !.handlers = IF fileOk THEN <<console, file>> ELSE <<console>>,
                !.setups = run]

AppLogger_init_unguarded(lg, fileOk) ==
  setup_logger(lg, fileOk)

\* AppLogger.__init__: set up only while _logger is None
AppLogger_init(lg, fileOk) ==
  IF lg.logger = "None" THEN setup_logger(lg, fileOk) ELSE lg

\* AppLogger(): __new__, then __init__ on what it returned
AppLogger(lg, fileOk) ==
  [AppLogger_init(AppLogger_new(lg), fileOk) EXCEPT !.n = @ + 1]

\* the module-level logger = AppLogger() of an imported utils package, with
\* app_log.txt writable
ImportedLogger == AppLogger(NoLogger, TRUE)


(***************************************************************************)
(* gui/main_window.py: MainWindow, the UI thread and the worker threads    *)
(***************************************************************************)
VARIABLES
  mode_combo,            \* selection of the mode combobox
  current_mode,          \* ModelManager._current_mode
  text_input,            \* content of the text box
  selected_image_path,   \* "" stands for None
  last_directory,        \* FileHandler._last_directory
  process_button,        \* the trigger control: [state, text]
  save_button,           \* state of the save control
  status,                \* text of the status bar
  image_display,         \* ImageDisplayFrame: [image, label]
  text_output,           \* the output text widget: [val, state]
  after_queue,           \* callbacks scheduled with after(0, ...), in order
  workers,               \* the worker threads
  text_to_image_model,   \* ModelManager._text_to_image_model
  image_caption_model,   \* ModelManager._image_caption_model
  dialog,                \* the error box the trigger path showed in the last step
  lastCall,              \* the last direct call of a wrapped operation
  cache,                 \* the dict of cache_result around process_with_conditional_text
  history,               \* the successful calls of the cached operation so far
  disk,                  \* what the file system holds under each path
  callers,               \* threads calling process with no trigger gating
  app_logger             \* the AppLogger class attributes and the logging registry

vars ==
  <<mode_combo, current_mode, text_input, selected_image_path, last_directory,
    process_button, save_button, status, image_display, text_output,
    after_queue, workers, text_to_image_model, image_caption_model,
    dialog, lastCall, cache, history, disk, callers, app_logger>>

\* the widgets and fields the UI thread owns
inputVars == <<mode_combo, current_mode, text_input, selected_image_path, last_directory>>
outputVars == <<process_button, save_button, status, image_display, text_output>>
adapterVars == <<text_to_image_model, image_caption_model>>
\* what only the direct callers of the operations use
directVars == <<lastCall, cache, history, disk, callers, app_logger>>

Slots == 1..MaxWorkers

\* a slot with no thread.  text_prompt, value and err are the locals of
\* _process_in_background (value holds image or caption), kept while a later
\* statement still uses them; the other fields record what the thread did:
\* the terminal callbacks it scheduled, whether its model load failed, what
\* the adapter call returned to it (produced), and
\* the UI-owned fields it has read while running.
IdleWorker ==
  [pc |-> "idle", text_prompt |-> <<>>, value |-> None, err |-> "",
   loadFailed |-> FALSE, produced |-> None,
   nComplete |-> 0, nError |-> 0, pending |-> FALSE, uiReads |-> {}]

\* a thread that has not called process yet (no trigger gating).  sawLoaded is what line 45 read, ranLoad
\* whether the thread ran _load_model, setFlag whether it ran line 50
IdleCaller ==
  [pc |-> "idle", sawLoaded |-> FALSE, ranLoad |-> FALSE, setFlag |-> FALSE,
   res |-> Ret(None)]

NoCall == [op |-> "", args |-> <<>>, kwargs |-> <<>>, res |-> Ret(None),
           out |-> <<>>, runs |-> 0, loads |-> 0, before |-> NoAdapter,
           env |-> [load |-> "ok", infer |-> "ok"], n |-> 0]

\* the text _display_image_result writes
GenMsg(p) == [t |-> "genmsg", s |-> p, f |-> "", mode |-> "", size |-> NoSize]

\* the state MainWindow.__init__ leaves, _on_mode_change() included
GuiInit ==
  /\ mode_combo = "Text to Image"
  /\ current_mode = "text_to_image"
  /\ text_input = <<>>
  /\ selected_image_path = ""
  /\ last_directory = "home"
  /\ process_button = [state |-> "normal", text |-> "Generate Image"]
  /\ save_button = "disabled"
  /\ status = "Ready"
  /\ image_display = [image |-> None, label |-> "No image loaded"]
  /\ text_output = [val |-> Str(<<>>), state |-> "disabled"]
  /\ after_queue = <<>>
  /\ workers = [w \in Slots |-> IdleWorker]
  /\ dialog = ""
  /\ lastCall = NoCall
  /\ cache = <<>>
  /\ history = <<>>
  /\ callers = [t \in Slots |-> IdleCaller]

\* a file system with none of the files
NoFiles == [f \in DOMAIN Files |-> Missing]

Init ==
  /\ GuiInit
  /\ disk = NoFiles
  /\ app_logger = ImportedLogger
  /\ text_to_image_model = NoAdapter
  /\ image_caption_model = NoAdapter

\* the error box a step of the trigger path shows (lines 318 and 383), ""
\* when the step shows none
Shows(dlg) == dialog' = dlg

\* ImageDisplayFrame.display_image: image.copy() fails on a non-image and
\* _show_error replaces the label, keeping the stored image
display_image(disp, image) ==
  IF image.t = "image"
  THEN [image |-> image, label |-> "image"]
  ELSE [image |-> disp.image, label |-> "Error"]

\* ImageDisplayFrame.clear_image
clear_image == [image |-> None, label |-> "No image loaded"]

\* _set_text_output: insert(END, None) fails in Tcl after the delete, so the
\* widget is left empty and editable
set_text_output(text) ==
  IF text.t = "None"
  THEN [val |-> Str(<<>>), state |-> "normal"]
  ELSE [val |-> text, state |-> "disabled"]

\* _clear_output
clear_output ==
  /\ image_display' = clear_image
  /\ text_output' = set_text_output(Str(<<>>))
  /\ save_button' = "disabled"

\* _on_mode_change resetting the whole trigger control, state included
OnModeChange_resets_trigger(selected) ==
  /\ mode_combo' = selected
  /\ current_mode' = IF selected = "Text to Image" THEN "text_to_image" ELSE "image_to_caption"
  /\ process_button' =
       [state |-> "normal",
        text |-> IF selected = "Text to Image" THEN "Generate Image" ELSE "Generate Caption"]
  /\ clear_output
  /\ Shows("")
  /\ UNCHANGED <<text_input, selected_image_path, last_directory, status,
                 after_queue, workers, adapterVars, directVars>>

\* the user picks an entry of the mode combobox: _on_mode_change
OnModeChange(selected) ==
  /\ mode_combo' = selected
  /\ current_mode' = IF selected = "Text to Image" THEN "text_to_image" ELSE "image_to_caption"
  /\ process_button' =
       [process_button EXCEPT
          !.text = IF selected = "Text to Image" THEN "Generate Image" ELSE "Generate Caption"]
  /\ clear_output
  /\ Shows("")
  /\ UNCHANGED <<text_input, selected_image_path, last_directory, status,
                 after_queue, workers, adapterVars, directVars>>

\* the user edits the text box, which is packed in text-to-image mode only
SetText(s) ==
  /\ current_mode = "text_to_image"
  /\ text_input' = s
  /\ Shows("")
  /\ UNCHANGED <<mode_combo, current_mode, selected_image_path, last_directory,
                 outputVars, after_queue, workers, adapterVars, directVars>>

\* the user presses Browse, which is packed in image-to-caption mode only:
\* _browse_image with the dialog returning choice and the file in state fs.
\* The message box of line 300 names a failed preview; it is dismissed
\* within the handler and is not kept in dialog.
BrowseImage(choice, fs) ==
  /\ current_mode = "image_to_caption"
  /\ LET b == browse_image_file(choice, last_directory)
         li == load_image(b.path, fs)
     IN /\ last_directory' = b.dir
        /\ IF b.res.kind = "raise" \/ b.path = ""
           THEN UNCHANGED <<selected_image_path, image_display>>
           ELSE /\ selected_image_path' = b.path
                /\ IF li.kind = "raise"
                   THEN UNCHANGED image_display
                   ELSE image_display' = display_image(image_display, li.val)
  /\ Shows("")
  /\ UNCHANGED <<mode_combo, current_mode, text_input, process_button, save_button,
                 status, text_output, after_queue, workers, adapterVars, directVars>>

\* the input the current mode requires is missing (lines 310-316)
MissingInput ==
  \/ current_mode = "text_to_image" /\ strip(text_input) = <<>>
  \/ current_mode = "image_to_caption" /\ selected_image_path = ""

MissingInputMessage ==
  IF current_mode = "text_to_image"
  THEN "Please enter a text prompt"
  ELSE "Please select an image file"

FreeSlot(w) == workers[w].pc = "idle"

\* _start_processing_thread: the thread takes the first free slot
start_processing_thread ==
  /\ process_button' = [state |-> "disabled", text |-> "Processing..."]
  /\ save_button' = "disabled"
  /\ status' = "Processing..."
  /\ \E w \in Slots :
       /\ FreeSlot(w)
       /\ \A v \in Slots : FreeSlot(v) => w <= v
       /\ workers' = [workers EXCEPT ![w] = [IdleWorker EXCEPT !.pc = "start", !.pending = TRUE]]

\* the except branch of _process_input without its return
reject_input_falls_through == start_processing_thread

\* the body of _process_input after a failed validation: dialog and return
reject_input ==
  UNCHANGED <<process_button, save_button, status, workers>>

\* the user presses the trigger, which Tk delivers only while the button is
\* enabled: _process_input.  Its validate_input wrapper sees args = (self,)
\* and checks nothing.
ProcessInput ==
  /\ process_button.state = "normal"
  /\ IF MissingInput
     THEN /\ reject_input
          /\ Shows(MissingInputMessage)
     ELSE /\ start_processing_thread
          /\ Shows("")
  /\ UNCHANGED <<inputVars, image_display, text_output, after_queue, adapterVars, directVars>>

\* _processing_complete leaving the save control as it is
processing_complete_keeps_save ==
  /\ status' = "Ready"
  /\ process_button' = [state |-> "normal", text |-> "Generate"]
  /\ UNCHANGED save_button

\* _processing_complete
processing_complete ==
  /\ status' = "Ready"
  /\ process_button' = [state |-> "normal", text |-> "Generate"]
  /\ save_button' = "normal"

\* _processing_error, including the dialog it shows
processing_error(error_msg) ==
  /\ dialog' = error_msg
  /\ status' = "Ready"
  /\ process_button' = [state |-> "normal", text |-> "Generate"]

(***************************************************************************)
(* _process_in_background, one action per statement that touches state     *)
(* another thread can see                                                  *)
(***************************************************************************)
\* a thread that has returned and whose terminal callback has run is gone
Retire(rec) == IF rec.pc = "done" /\ ~rec.pending THEN IdleWorker ELSE rec

Callback(cb, w, val, prompt, msg) ==
  [cb |-> cb, w |-> w, val |-> val, prompt |-> prompt, msg |-> msg]

\* line 337: if self._current_mode == "text_to_image"
WorkerStart(w) ==
  /\ workers[w].pc = "start"
  /\ workers' = [workers EXCEPT
       ![w].pc = IF current_mode = "text_to_image" THEN "get_text" ELSE "elif",
       ![w].uiReads = @ \cup {"current_mode"}]
  /\ Shows("")
  /\ UNCHANGED <<inputVars, outputVars, after_queue, adapterVars, directVars>>

\* line 347: elif self._current_mode == "image_to_caption"
WorkerElif(w) ==
  /\ workers[w].pc = "elif"
  /\ workers' = [workers EXCEPT
       ![w].pc = IF current_mode = "image_to_caption" THEN "load_image" ELSE "sched_complete",
       ![w].uiReads = @ \cup {"current_mode"}]
  /\ Shows("")
  /\ UNCHANGED <<inputVars, outputVars, after_queue, adapterVars, directVars>>

\* the worker's record after a call that ended with outcome r
AfterCall(rec, r, next) ==
  LET failed == r.cs.loads > 0 /\ ~r.cs.ad.is_loaded
  IN IF r.res.kind = "raise"
     THEN [rec EXCEPT !.pc = "except", !.err = r.res.msg, !.loadFailed = failed]
     ELSE [rec EXCEPT !.pc = next, !.value = r.res.val, !.loadFailed = failed,
                      !.produced = r.res.val]

\* lines 339-342: text_prompt = self.text_input.get(1.0, tk.END).strip(),
\* then image = self.process_text_to_image(text_prompt); only the first
\* statement touches state another thread can see
WorkerTextToImage(w) ==
  /\ workers[w].pc = "get_text"
  /\ \E env \in Envs :
       LET text_prompt == strip(text_input)
           r == process_text_to_image(CallState(text_to_image_model, env),
                                      <<Self, Str(text_prompt)>>, <<>>)
           rec == [workers[w] EXCEPT !.text_prompt = text_prompt,
                                     !.uiReads = @ \cup {"text_input"}]
       IN /\ text_to_image_model' = r.cs.ad
          /\ workers' = [workers EXCEPT ![w] = AfterCall(rec, r, "sched_display_image")]
  /\ Shows("")
  /\ UNCHANGED <<inputVars, outputVars, after_queue, image_caption_model, directVars>>

\* line 345: self.after(0, lambda: self._display_image_result(image, text_prompt))
WorkerSchedDisplayImage(w) ==
  /\ workers[w].pc = "sched_display_image"
  /\ after_queue' = Append(after_queue,
       Callback("display_image", w, workers[w].value, workers[w].text_prompt, ""))
  /\ workers' = [workers EXCEPT ![w].pc = "sched_complete", ![w].value = None,
                                 ![w].text_prompt = <<>>]
  /\ Shows("")
  /\ UNCHANGED <<inputVars, outputVars, adapterVars, directVars>>

\* lines 349-354: image_path = Path(self._selected_image_path), image =
\* load_image(image_path) with the file in state fs, then caption =
\* self.process_image_to_caption(image); only the first statement touches
\* state another thread can see
WorkerImageToCaption(w) ==
  /\ workers[w].pc = "load_image"
  /\ \E fs \in FileStates, env \in Envs :
       LET rec == [workers[w] EXCEPT !.uiReads = @ \cup {"selected_image_path"}]
       IN IF selected_image_path = ""
          THEN /\ workers' = [workers EXCEPT ![w] =
                    [rec EXCEPT !.pc = "except",
                                !.err = "expected str, bytes or os.PathLike object, not NoneType"]]
               /\ UNCHANGED image_caption_model
          ELSE LET li == load_image(selected_image_path, fs)
                   r == process_image_to_caption(CallState(image_caption_model, env),
                                                 <<Self, li.val>>, <<>>)
               IN IF li.kind = "raise"
                  THEN /\ workers' = [workers EXCEPT ![w] =
                            [rec EXCEPT !.pc = "except", !.err = li.msg]]
                       /\ UNCHANGED image_caption_model
                  ELSE /\ image_caption_model' = r.cs.ad
                       /\ workers' = [workers EXCEPT ![w] =
                            AfterCall(rec, r, "sched_display_text")]
  /\ Shows("")
  /\ UNCHANGED <<inputVars, outputVars, after_queue, text_to_image_model, directVars>>

\* line 357: self.after(0, lambda: self._display_text_result(caption))
WorkerSchedDisplayText(w) ==
  /\ workers[w].pc = "sched_display_text"
  /\ after_queue' = Append(after_queue, Callback("display_text", w, workers[w].value, <<>>, ""))
  /\ workers' = [workers EXCEPT ![w].pc = "sched_complete", ![w].value = None]
  /\ Shows("")
  /\ UNCHANGED <<inputVars, outputVars, adapterVars, directVars>>

\* line 360 calling self._processing_complete() in the worker thread
WorkerSchedComplete_direct(w) ==
  /\ workers[w].pc = "sched_complete"
  /\ processing_complete
  /\ workers' = [workers EXCEPT ![w] =
       Retire([@ EXCEPT !.pc = "done", !.nComplete = @ + 1, !.uiReads = {}, !.pending = FALSE])]
  /\ Shows("")
  /\ UNCHANGED <<inputVars, image_display, text_output, after_queue, adapterVars, directVars>>

\* line 360: self.after(0, self._processing_complete), then the thread returns
WorkerSchedComplete(w) ==
  /\ workers[w].pc = "sched_complete"
  /\ after_queue' = Append(after_queue, Callback("complete", w, None, <<>>, ""))
  /\ workers' = [workers EXCEPT ![w].pc = "done", ![w].nComplete = @ + 1, ![w].uiReads = {}]
  /\ Shows("")
  /\ UNCHANGED <<inputVars, outputVars, adapterVars, directVars>>

\* the except block swallowing the exception without scheduling anything
WorkerExcept_silent(w) ==
  /\ workers[w].pc = "except"
  /\ workers' = [workers EXCEPT ![w].pc = "del_e", ![w].err = "",
                                 ![w].value = None, ![w].text_prompt = <<>>]
  /\ Shows("")
  /\ UNCHANGED <<inputVars, outputVars, after_queue, adapterVars, directVars>>

\* line 364: self.after(0, lambda: self._processing_error(str(e))), inside
\* the except block, where e is still bound
WorkerExcept(w) ==
  /\ workers[w].pc = "except"
  /\ after_queue' = Append(after_queue, Callback("error", w, None, <<>>, workers[w].err))
  /\ workers' = [workers EXCEPT ![w].pc = "del_e", ![w].nError = @ + 1, ![w].err = "",
                                 ![w].value = None, ![w].text_prompt = <<>>]
  /\ Shows("")
  /\ UNCHANGED <<inputVars, outputVars, adapterVars, directVars>>

\* the end of the except block unbinds e (the cell the lambda closes over),
\* then the thread returns
WorkerExitExcept(w) ==
  /\ workers[w].pc = "del_e"
  /\ workers' = [workers EXCEPT ![w] = Retire([@ EXCEPT !.pc = "done", !.uiReads = {}])]
  /\ Shows("")
  /\ UNCHANGED <<inputVars, outputVars, after_queue, adapterVars, directVars>>

(***************************************************************************)
(* The UI thread runs the scheduled callbacks in the order of scheduling   *)
(***************************************************************************)
HeadIs(cb) == after_queue # <<>> /\ Head(after_queue).cb = cb

\* the terminal callback of worker w has run
Settle(w) == workers' = [workers EXCEPT ![w] = Retire([@ EXCEPT !.pending = FALSE])]

\* _display_image_result
RunDisplayImage ==
  /\ HeadIs("display_image")
  /\ LET c == Head(after_queue)
     IN /\ image_display' = display_image(image_display, c.val)
        /\ text_output' = set_text_output(GenMsg(c.prompt))
  /\ after_queue' = Tail(after_queue)
  /\ Shows("")
  /\ UNCHANGED <<inputVars, process_button, save_button, status, workers, adapterVars, directVars>>

\* _display_text_result
RunDisplayText ==
  /\ HeadIs("display_text")
  /\ text_output' = set_text_output(Head(after_queue).val)
  /\ after_queue' = Tail(after_queue)
  /\ Shows("")
  /\ UNCHANGED <<inputVars, process_button, save_button, status, image_display,
                 workers, adapterVars, directVars>>

RunProcessingComplete ==
  /\ HeadIs("complete")
  /\ processing_complete
  /\ Settle(Head(after_queue).w)
  /\ after_queue' = Tail(after_queue)
  /\ Shows("")
  /\ UNCHANGED <<inputVars, image_display, text_output, adapterVars, directVars>>

\* the lambda of line 364 runs: str(e) is evaluated now, on the UI thread.
\* While the worker is still inside its except block e is bound and
\* _processing_error runs; once the worker has left the block the lambda
\* raises NameError and Tk reports the callback's exception.
RunProcessingError ==
  /\ HeadIs("error")
  /\ LET c == Head(after_queue)
     IN /\ IF workers[c.w].pc = "del_e"
           THEN processing_error(c.msg)
           ELSE /\ dialog' = ""
                /\ UNCHANGED <<status, process_button>>
        /\ Settle(c.w)
  /\ after_queue' = Tail(after_queue)
  /\ UNCHANGED <<inputVars, save_button, image_display, text_output, adapterVars, directVars>>

WorkerStep(w) ==
  \/ WorkerStart(w)
  \/ WorkerElif(w)
  \/ WorkerTextToImage(w)
  \/ WorkerSchedDisplayImage(w)
  \/ WorkerImageToCaption(w)
  \/ WorkerSchedDisplayText(w)
  \/ WorkerSchedComplete(w)
  \/ WorkerExcept(w)
  \/ WorkerExitExcept(w)

RunAfter ==
  \/ RunDisplayImage
  \/ RunDisplayText
  \/ RunProcessingComplete
  \/ RunProcessingError

Modes == {"Text to Image", "Image to Caption"}

\* what the user leaves in the text box: nothing, white space, a padded prompt
TextChoices == {<<>>, <<" ">>, <<" ", "a">>}

Next ==
  \/ \E selected \in Modes : OnModeChange(selected)
  \/ \E s \in TextChoices : SetText(s)
  \/ \E choice \in BrowseChoices, fs \in FileStates : BrowseImage(choice, fs)
  \/ ProcessInput
  \/ \E w \in Slots : WorkerStep(w)
  \/ RunAfter

Spec == Init /\ [][Next]_vars

\* threads run, and the Tk main loop runs the callbacks that are due
LiveSpec ==
  /\ Spec
  /\ WF_vars(\E w \in Slots : WorkerStep(w))
  /\ WF_vars(RunAfter)

(***************************************************************************)
(* Direct calls of the wrapped operations, inputs drawn from bounded sets  *)
(***************************************************************************)
\* @validate_input over counted_op
validated_op(cs, args, kwargs) == validate_input("counted_op", cs, args, kwargs)

\* @error_handler() over raising_op, with the default message
handled_op(cs, args, kwargs) ==
  error_handler("raising_op", "An error occurred", cs, args, kwargs)

\* @log_operation over raising_op
logged_op(cs, args, kwargs) == log_operation("raising_op", "raising_op", cs, args, kwargs)

InputValues == {None} \cup {Str(s) : s \in Strings}

\* what raising_op is made to do on a call
OpEnvs == [load : {"ok"}, infer : {"ok"}, raises : {""} \cup Exceptions]

ImageValues == {None, FileImage("photo.png")}

\* the two ways a caller passes the primary input of a method
Passing(x) ==
  {[args |-> <<Self, x>>, kwargs |-> <<>>],
   [args |-> <<Self>>, kwargs |-> << <<"user_input", x>> >>]}

Record(op, a, r, before) ==
  [op |-> op, args |-> a.args, kwargs |-> a.kwargs, res |-> r.res, out |-> r.cs.out,
   runs |-> r.cs.runs, loads |-> r.cs.loads, before |-> before, env |-> r.cs.env,
   n |-> lastCall.n + 1]

guiVars ==
  <<inputVars, outputVars, after_queue, workers, dialog>>

\* what the calls of the decorated operations leave alone
otherVars == <<guiVars, cache, history, disk, callers, app_logger>>

\* a caller calls the validate-wrapped operation
CallValidated(a) ==
  /\ lastCall.n < MaxCalls
  /\ lastCall' = Record("validated_op", a,
                        validated_op(CallState(NoAdapter, [load |-> "ok", infer |-> "ok"]),
                                     a.args, a.kwargs),
                        NoAdapter)
  /\ UNCHANGED <<otherVars, adapterVars>>

\* model.process(text_prompt), as main_window.py line 52 and
\* text_to_image.py line 64 call it
CallT2IProcess(x, env) ==
  /\ lastCall.n < MaxCalls
  /\ LET a == [args |-> <<Self, x>>, kwargs |-> <<>>]
         r == T2I_process(CallState(text_to_image_model, env), a.args, a.kwargs)
     IN /\ lastCall' = Record("T2I.process", a, r, text_to_image_model)
        /\ text_to_image_model' = r.cs.ad
  /\ UNCHANGED <<otherVars, image_caption_model>>

\* model.process(image), as main_window.py line 58 calls it
CallCapProcess(x, env) ==
  /\ lastCall.n < MaxCalls
  /\ LET a == [args |-> <<Self, x>>, kwargs |-> <<>>]
         r == Cap_process(CallState(image_caption_model, env), a.args, a.kwargs)
     IN /\ lastCall' = Record("Cap.process", a, r, image_caption_model)
        /\ image_caption_model' = r.cs.ad
  /\ UNCHANGED <<otherVars, text_to_image_model>>

\* a caller calls the error_handler-wrapped operation
CallHandled(x, env) ==
  /\ lastCall.n < MaxCalls
  /\ LET a == [args |-> <<Self, x>>, kwargs |-> <<>>]
     IN lastCall' = Record("handled_op", a,
                           handled_op(CallState(NoAdapter, env), a.args, a.kwargs),
                           NoAdapter)
  /\ UNCHANGED <<otherVars, adapterVars>>

\* a caller calls the log_operation-wrapped operation
CallLogged(x, env) ==
  /\ lastCall.n < MaxCalls
  /\ LET a == [args |-> <<Self, x>>, kwargs |-> <<>>]
     IN lastCall' = Record("logged_op", a,
                           logged_op(CallState(NoAdapter, env), a.args, a.kwargs),
                           NoAdapter)
  /\ UNCHANGED <<otherVars, adapterVars>>

\* self._ensure_loaded() on the text-to-image adapter
CallT2IEnsureLoaded(env) ==
  /\ lastCall.n < MaxCalls
  /\ LET a == [args |-> <<Self>>, kwargs |-> <<>>]
         r == ensure_loaded(CallState(text_to_image_model, env))
     IN /\ lastCall' = Record("T2I._ensure_loaded", a, r, text_to_image_model)
        /\ text_to_image_model' = r.cs.ad
  /\ UNCHANGED <<otherVars, image_caption_model>>

\* self._ensure_loaded() on the captioning adapter
CallCapEnsureLoaded(env) ==
  /\ lastCall.n < MaxCalls
  /\ LET a == [args |-> <<Self>>, kwargs |-> <<>>]
         r == ensure_loaded(CallState(image_caption_model, env))
     IN /\ lastCall' = Record("Cap._ensure_loaded", a, r, image_caption_model)
        /\ image_caption_model' = r.cs.ad
  /\ UNCHANGED <<otherVars, text_to_image_model>>

\* both adapters constructed, nothing loaded
CallInit ==
  /\ GuiInit
  /\ disk = NoFiles
  /\ app_logger = NoLogger
  /\ text_to_image_model = NewAdapter("TextToImageModel")
  /\ image_caption_model = NewAdapter("ImageCaptionModel")

\* some module constructs AppLogger(); opening app_log.txt works or fails
ConstructAppLogger(fileOk) ==
  /\ lastCall.n < MaxCalls
  /\ app_logger' = AppLogger(app_logger, fileOk)
  /\ lastCall' = [NoCall EXCEPT !.op = "AppLogger", !.n = lastCall.n + 1]
  /\ UNCHANGED <<guiVars, adapterVars, cache, history, disk, callers>>

CallNext ==
  \/ \E fileOk \in BOOLEAN : ConstructAppLogger(fileOk)
  \/ \E x \in InputValues : \E a \in Passing(x) : CallValidated(a)
  \/ \E x \in InputValues, env \in Envs : CallT2IProcess(x, env)
  \/ \E x \in ImageValues, env \in Envs : CallCapProcess(x, env)
  \/ \E x \in InputValues, env \in OpEnvs : CallHandled(x, env)
  \/ \E x \in InputValues, env \in OpEnvs : CallLogged(x, env)
  \/ \E env \in Envs : CallT2IEnsureLoaded(env)
  \/ \E env \in Envs : CallCapEnsureLoaded(env)

CallSpec == CallInit /\ [][CallNext]_vars

(***************************************************************************)
(* Calls of the cached operation                                           *)
(***************************************************************************)
\* the addresses an image object can live at
Addresses == {1, 2}

\* the images a caller passes
CachedImages ==
  {Picture("photo.png", "RGB", <<1, 1>>), Picture("photo.png", "RGB", <<2, 1>>),
   Picture("scan.JPG", "RGB", <<1, 1>>)}

\* model.process_with_conditional_text(image) and
\* model.process_with_conditional_text(image, conditional_text)
CachedArgs ==
  {<<Obj(Self, 0), Obj(img, at)>> : img \in CachedImages, at \in Addresses}
  \cup {<<Obj(Self, 0), Obj(img, at), Obj(Str(<<"a">>), 0)>> :
          img \in CachedImages, at \in Addresses}

\* a caller calls the cached operation on the captioning adapter
CallCached(args, env) ==
  /\ lastCall.n < MaxCalls
  /\ LET a == [args |-> args, kwargs |-> <<>>]
         r == process_with_conditional_text(
                CachedCallState(image_caption_model, env, cache), a.args, a.kwargs)
     IN /\ lastCall' = Record("process_with_conditional_text", a, r, image_caption_model)
        /\ image_caption_model' = r.cs.ad
        /\ cache' = r.cs.cache
        /\ history' = IF r.res.kind = "ret"
                      THEN Append(history, [args |-> a.args, kwargs |-> a.kwargs,
                                            val |-> r.res.val])
                      ELSE history
  /\ UNCHANGED <<guiVars, disk, callers, app_logger, text_to_image_model>>

CacheNext == \E args \in CachedArgs, env \in Envs : CallCached(args, env)

CacheSpec == CallInit /\ [][CacheNext]_vars

(***************************************************************************)
(* Calls of the file handler, the file system changed by nothing else      *)
(***************************************************************************)
\* what a file can hold before the first call
InitContents ==
  {Corrupt, Holds("RGB", <<1, 1>>), Holds("RGBA", <<2, 1>>), Holds("LA", <<1, 1>>),
   Holds("P", <<2, 1>>)}

\* the file systems the calls start from: at most one file exists, any
\* content under a supported name or an image under an unsupported one
InitDisks ==
  {NoFiles}
  \cup {[g \in DOMAIN Files |-> IF g = f THEN c ELSE Missing] :
          f \in {"photo.png", "scan.JPG"}, c \in InitContents}
  \cup {[g \in DOMAIN Files |-> IF g = f THEN Holds("RGB", <<1, 1>>) ELSE Missing] :
          f \in {"notes.txt", "anim.gif"}}

\* the images a caller saves
SaveImages == {GenImage(<<"a">>), Picture("", "RGBA", <<2, 1>>), Picture("", "L", <<1, 1>>)}

\* what a dialog returns: "" when cancelled, else a path; the "All files"
\* filter and the name field let the user name any path
DialogChoices == {""} \cup DOMAIN Files

FileCall(op, args, res) ==
  [NoCall EXCEPT !.op = op, !.args = args, !.res = res, !.n = lastCall.n + 1]

\* a call that opens a dialog: out keeps the initialdir the dialog was
\* given, env what the file system did with the write
DialogCall(op, args, res, write) ==
  [FileCall(op, args, res) EXCEPT !.out = <<last_directory>>, !.env = [write |-> write]]

\* file_handler.load_image(Path(f))
CallLoadImage(f) ==
  /\ lastCall.n < MaxFileCalls
  /\ lastCall' = FileCall("load_image", <<PathValue(f)>>, load_image(f, disk[f]))
  /\ UNCHANGED <<guiVars, adapterVars, cache, history, disk, callers, app_logger>>

\* file_handler.browse_image_file() with the dialog returning choice
CallBrowseImageFile(choice) ==
  /\ lastCall.n < MaxFileCalls
  /\ LET b == browse_image_file(choice, last_directory)
     IN /\ lastCall' = DialogCall("browse_image_file", <<PathValue(choice)>>,
                                  IF b.path # "" THEN Ret(PathValue(b.path)) ELSE b.res,
                                  "none")
        /\ last_directory' = b.dir
  /\ UNCHANGED <<mode_combo, current_mode, text_input, selected_image_path, outputVars,
                 after_queue, workers, dialog, adapterVars, cache, history, disk, callers, app_logger>>

\* file_handler.save_image(image) with the dialog returning choice
CallSaveImage(image, choice, write) ==
  /\ lastCall.n < MaxFileCalls
  /\ LET sv == save_image(image, choice, last_directory, disk, write)
     IN /\ lastCall' = DialogCall("save_image", <<image, PathValue(choice)>>, sv.res, write)
        /\ disk' = sv.disk
        /\ last_directory' = sv.dir
  /\ UNCHANGED <<mode_combo, current_mode, text_input, selected_image_path, outputVars,
                 after_queue, workers, dialog, adapterVars, cache, history, callers, app_logger>>

\* file_handler.save_text(text) with the dialog returning choice
CallSaveText(text, choice, write) ==
  /\ lastCall.n < MaxFileCalls
  /\ LET sv == save_text(text, choice, last_directory, disk, write)
     IN /\ lastCall' = DialogCall("save_text", <<text, PathValue(choice)>>, sv.res, write)
        /\ disk' = sv.disk
        /\ last_directory' = sv.dir
  /\ UNCHANGED <<mode_combo, current_mode, text_input, selected_image_path, outputVars,
                 after_queue, workers, dialog, adapterVars, cache, history, callers, app_logger>>

\* path = file_handler.save_image(image) with the dialog returning choice,
\* and where a path is returned, file_handler.load_image(path)
CallSaveThenLoad(image, choice, write) ==
  /\ lastCall.n < MaxFileCalls
  /\ LET sv == save_image(image, choice, last_directory, disk, write)
     IN /\ sv.res.kind = "ret" /\ sv.res.val.t = "path"
        /\ lastCall' = FileCall("save_image;load_image", <<image, PathValue(choice)>>,
                                load_image(choice, sv.disk[choice]))
        /\ disk' = sv.disk
        /\ last_directory' = sv.dir
  /\ UNCHANGED <<mode_combo, current_mode, text_input, selected_image_path, outputVars,
                 after_queue, workers, dialog, adapterVars, cache, history, callers, app_logger>>

FileInit ==
  /\ GuiInit
  /\ text_to_image_model = NewAdapter("TextToImageModel")
  /\ image_caption_model = NewAdapter("ImageCaptionModel")
  /\ disk \in InitDisks
  /\ app_logger = ImportedLogger

FileNext ==
  \/ \E f \in DOMAIN Files : CallLoadImage(f)
  \/ \E choice \in DialogChoices : CallBrowseImageFile(choice)
  \/ \E image \in SaveImages, choice \in DialogChoices, write \in WriteOutcomes :
       CallSaveImage(image, choice, write)
  \/ \E choice \in DialogChoices, write \in WriteOutcomes :
       CallSaveText(Str(<<"a">>), choice, write)
  \/ \E image \in SaveImages, choice \in DialogChoices, write \in WriteOutcomes :
       CallSaveThenLoad(image, choice, write)

FileSpec == FileInit /\ [][FileNext]_vars

(***************************************************************************)
(* Threads calling process on one adapter with no trigger gating, one      *)
(* action per statement of _ensure_loaded that touches the adapter         *)
(***************************************************************************)
\* model.process(x) up to the call of _ensure_loaded (text_to_image.py
\* line 43): validate_input rejects a blank prompt before the body runs
RaceCall(t, x) ==
  /\ callers[t].pc = "idle"
  /\ callers' = IF IsBlank(x)
                THEN [callers EXCEPT ![t].pc = "returned",
                                     ![t].res = Raise("ValueError", "Input cannot be empty")]
                ELSE [callers EXCEPT ![t].pc = "check"]
  /\ UNCHANGED <<guiVars, adapterVars, lastCall, cache, history, disk, app_logger>>

\* line 45 taking the flag in the same step as it tests it
RaceCheck_test_and_set(t) ==
  /\ callers[t].pc = "check"
  /\ callers' = [callers EXCEPT ![t].sawLoaded = text_to_image_model.is_loaded,
                                ![t].pc = IF text_to_image_model.is_loaded
                                          THEN "infer" ELSE "load"]
  /\ text_to_image_model' = [text_to_image_model EXCEPT !.is_loaded = TRUE]
  /\ UNCHANGED <<guiVars, image_caption_model, lastCall, cache, history, disk, app_logger>>

\* line 45: if not self._is_loaded
RaceCheck(t) ==
  /\ callers[t].pc = "check"
  /\ callers' = [callers EXCEPT ![t].sawLoaded = text_to_image_model.is_loaded,
                                ![t].pc = IF text_to_image_model.is_loaded
                                          THEN "infer" ELSE "load"]
  /\ UNCHANGED <<guiVars, adapterVars, lastCall, cache, history, disk, app_logger>>

\* line 48: self._load_model(); a failure is caught by error_handler around
\* process, which returns None
RaceLoad(t, env) ==
  /\ callers[t].pc = "load"
  /\ LET r == T2I_load_model(CallState(text_to_image_model, env))
     IN /\ text_to_image_model' = r.cs.ad
        /\ callers' = [callers EXCEPT ![t].ranLoad = TRUE,
                                      ![t].pc = IF r.res.kind = "raise"
                                                THEN "returned" ELSE "set_time"]
  /\ UNCHANGED <<guiVars, image_caption_model, lastCall, cache, history, disk, app_logger>>

\* line 49: self._load_time = time.time() - start_time
RaceSetTime(t) ==
  /\ callers[t].pc = "set_time"
  /\ text_to_image_model' = [text_to_image_model EXCEPT !.load_time = "set"]
  /\ callers' = [callers EXCEPT ![t].pc = "set_flag"]
  /\ UNCHANGED <<guiVars, image_caption_model, lastCall, cache, history, disk, app_logger>>

\* line 50: self._is_loaded = True
RaceSetFlag(t) ==
  /\ callers[t].pc = "set_flag"
  /\ text_to_image_model' = [text_to_image_model EXCEPT !.is_loaded = TRUE]
  /\ callers' = [callers EXCEPT ![t].setFlag = TRUE, ![t].pc = "infer"]
  /\ UNCHANGED <<guiVars, image_caption_model, lastCall, cache, history, disk, app_logger>>

\* the pipeline call of process (text_to_image.py lines 46-55) and the return
RaceInfer(t, env) ==
  /\ callers[t].pc = "infer"
  /\ callers' = [callers EXCEPT ![t].pc = "returned",
                                ![t].res = IF env.infer = "ok"
                                           THEN Ret(GenImage(<<"a">>)) ELSE Ret(None)]
  /\ UNCHANGED <<guiVars, adapterVars, lastCall, cache, history, disk, app_logger>>

\* the adapter is constructed and not loaded, no thread has called yet
RaceInit == CallInit

RaceNext ==
  \E t \in Slots :
    \/ \E x \in {Str(<<"a">>), Str(<<" ">>)} : RaceCall(t, x)
    \/ RaceCheck(t)
    \/ \E env \in Envs : RaceLoad(t, env)
    \/ RaceSetTime(t)
    \/ RaceSetFlag(t)
    \/ \E env \in Envs : RaceInfer(t, env)

RaceSpec == RaceInit /\ [][RaceNext]_vars

(***************************************************************************)
(* Properties                                                              *)
(***************************************************************************)
\* the workers whose request is in flight: started, terminal callback not yet run
InFlight == {w \in Slots : workers[w].pending}

\* the terminal callbacks of worker w waiting in the queue
Terminals(w) ==
  {i \in 1..Len(after_queue) :
     after_queue[i].w = w /\ after_queue[i].cb \in {"complete", "error"}}

\* the step runs the callback at the head of the queue
RunsHead(cbs) ==
  /\ after_queue # <<>>
  /\ Head(after_queue).cb \in cbs
  /\ after_queue' = Tail(after_queue)

\* C1: at most one processing request is in flight, and while one is in
\* flight the trigger control is disabled, whatever the user does with the
\* mode selector in the meantime.
C1_AtMostOneInFlight ==
  /\ Cardinality(InFlight) <= 1
  /\ InFlight # {} => process_button.state = "disabled"

\* a request is in flight and the user has changed the mode since it started
C1_Witness ==
  /\ InFlight # {}
  /\ process_button = [state |-> "disabled", text |-> "Generate Caption"]

\* C2: every worker schedules exactly one terminal callback, either
\* _processing_complete or _processing_error, exactly once: never both,
\* and never none once its body has ended.
C2_ExactlyOneTerminal ==
  \A w \in Slots :
    LET rec == workers[w]
        ended == rec.pc \in {"del_e", "done"}
    IN /\ rec.nComplete + rec.nError <= 1
       /\ ended => rec.nComplete + rec.nError = 1
       /\ rec.pending => Cardinality(Terminals(w)) = (IF ended THEN 1 ELSE 0)
       /\ ~rec.pending => Terminals(w) = {}

\* a worker that raised has returned with its single error callback queued
C2_Witness ==
  \E w \in Slots :
    /\ workers[w].pc = "done"
    /\ workers[w].nError = 1
    /\ Cardinality(Terminals(w)) = 1

\* C3: when model loading throws during a request, the terminal callback of
\* that request shows an error dialog, re-enables the trigger control and
\* sets the status back to Ready.
C3_LoadFailureShowsDialog ==
  [][(/\ RunsHead({"complete", "error"})
      /\ workers[Head(after_queue).w].loadFailed)
     => (/\ dialog' # ""
         /\ process_button'.state = "normal"
         /\ status' = "Ready")]_vars

\* the text-to-image call of some worker has returned an image
GotImage ==
  \E w \in Slots :
    /\ workers[w].pc = "sched_display_image"
    /\ workers[w].value = GenImage(<<"a">>)

\* C4: in text-to-image mode with a non-blank prompt, pressing the trigger
\* disables the trigger control and sets the status to busy in the same
\* step; and once the model call has returned an image, eventually that
\* image is displayed, and eventually the trigger control is enabled again
\* with the save control enabled.
C4_TriggerThenResult ==
  /\ [][(/\ current_mode = "text_to_image"
         /\ strip(text_input) # <<>>
         /\ ProcessInput)
        => (/\ process_button'.state = "disabled"
            /\ status' = "Processing..."
            /\ InFlight' # {})]_vars
  /\ GotImage ~> (image_display = [image |-> GenImage(<<"a">>), label |-> "image"])
  /\ GotImage ~> (process_button.state = "normal" /\ save_button = "normal")

\* a successful text-to-image request has completed and its image is shown
C4_Witness ==
  /\ current_mode = "text_to_image"
  /\ image_display = [image |-> GenImage(<<"a">>), label |-> "image"]
  /\ text_output.val = GenMsg(<<"a">>)
  /\ process_button.state = "normal"
  /\ save_button = "normal"
  /\ status = "Ready"

\* C5: pressing the trigger while the input the current mode requires is
\* missing shows an error dialog, starts no worker, and leaves the trigger
\* control enabled and the status, the output and the save control as
\* they were.
C5_MissingInputRejected ==
  [][(MissingInput /\ ProcessInput)
     => (/\ dialog' = MissingInputMessage
         /\ workers' = workers
         /\ after_queue' = after_queue
         /\ process_button'.state = "normal"
         /\ UNCHANGED <<status, image_display, text_output, save_button>>)]_vars

\* the trigger was pressed in image-to-caption mode with no image selected
C5_Witness ==
  /\ dialog = "Please select an image file"
  /\ current_mode = "image_to_caption"
  /\ selected_image_path = ""
  /\ InFlight = {}
  /\ process_button.state = "normal"

\* C6: a worker neither reads nor writes the current mode, the selected
\* image path or the text box while its request is running.
C6_WorkerReadsNoUIState ==
  \A w \in Slots : workers[w].uiReads = {}

\* C7: no statement executed by a worker thread changes the output image,
\* the output text, the trigger control, the save control or the status
\* line; the worker only appends callbacks to the after() queue.
C7_WorkerLeavesUIUntouched ==
  [][(\E w \in Slots : WorkerStep(w)) => UNCHANGED outputVars]_vars

\* a worker has returned, its display and completion callbacks still queued
C7_Witness ==
  /\ Len(after_queue) = 2
  /\ after_queue[1].cb = "display_image"
  /\ after_queue[2].cb = "complete"
  /\ process_button.state = "disabled"
  /\ status = "Processing..."

\* C8: whenever the worker body raised, the error callback it scheduled
\* shows an error dialog, re-enables the trigger control and sets the
\* status to Ready, leaving the output as it was and the save control
\* disabled.
C8_FailureReleasesTrigger ==
  [][RunsHead({"error"})
     => (/\ dialog' # ""
         /\ process_button'.state = "normal"
         /\ status' = "Ready"
         /\ UNCHANGED <<image_display, text_output>>
         /\ save_button' = "disabled")]_vars

\* the primary input of the last direct call
LastInput == Primary(lastCall.args, lastCall.kwargs)

\* C9: a validate-wrapped operation called with an empty, blank or
\* whitespace-only primary input, however it is passed, is rejected with
\* the invalid-input error before the operation runs; called with any
\* other input it runs exactly once and its result is returned, with no
\* other effect.
C9_ValidateRejectsBlank ==
  lastCall.op = "validated_op" =>
    IF IsBlank(LastInput)
    THEN /\ lastCall.res = Raise("ValueError", "Input cannot be empty")
         /\ lastCall.runs = 0
    ELSE /\ lastCall.res = Ret(LastInput)
         /\ lastCall.runs = 1
         /\ lastCall.out = <<>>

\* C10: on both adapters' process the layers are validate, log, error
\* handler from the outside in: a blank input raises the validation error
\* to the caller with no log line written, no load and no run of the body
\* and with the adapter untouched; an input that passes validation is
\* logged as started first and completed last, and a failure of the body
\* is reported by the error handler between the two and returned as None.
C10_LayeringOrder ==
  LET isT2I == lastCall.op = "T2I.process"
      ad == IF isT2I THEN text_to_image_model ELSE image_caption_model
      out == lastCall.out
  IN lastCall.op \in {"T2I.process", "Cap.process"} =>
       IF IsBlank(LastInput)
       THEN /\ lastCall.res = Raise("ValueError", "Input cannot be empty")
            /\ out = <<>>
            /\ lastCall.runs = 0
            /\ lastCall.loads = 0
            /\ ad = lastCall.before
       ELSE /\ lastCall.res.kind = "ret"
            /\ lastCall.runs = 1
            /\ Len(out) >= 2
            /\ out[1] = <<"LOG", "Starting", "process">>
            /\ out[Len(out)] = <<"LOG", "completed", "process">>
            /\ \A i \in 1..Len(out) :
                 out[i][1] = "ERROR" => i = Len(out) - 1 /\ lastCall.res = Ret(None)

\* a whitespace-only prompt was passed to the text-to-image adapter's process
C10_Witness ==
  /\ lastCall.op = "T2I.process"
  /\ LastInput = Str(<<" ">>)
  /\ lastCall.res.kind = "raise"
  /\ lastCall.out = <<>>

\* C11: an error_handler-wrapped operation never propagates a failure:
\* whatever exception the operation raises, the wrapper prints the message
\* with the failure detail and returns None; when the operation succeeds
\* the wrapper returns the operation's value unchanged and prints nothing.
\* The operation runs once either way.
C11_HandlerNeverPropagates ==
  lastCall.op = "handled_op" =>
    /\ lastCall.runs = 1
    /\ IF lastCall.env.raises # ""
       THEN /\ lastCall.res = Ret(None)
            /\ lastCall.out = << <<"ERROR", "An error occurred", "operation failed">> >>
       ELSE /\ lastCall.res = Ret(LastInput)
            /\ lastCall.out = <<>>

\* the wrapped operation raised OSError and the caller received None
C11_Witness ==
  /\ lastCall.op = "handled_op"
  /\ lastCall.env.raises = "OSError"
  /\ lastCall.res = Ret(None)
  /\ Len(lastCall.out) = 1

\* C12: a log_operation-wrapped operation runs the operation exactly once
\* per call and writes one start record followed by exactly one outcome
\* record: completed, with the operation's result returned unchanged, or
\* failed, with the same error raised to the caller.
C12_LogOnceAndReraise ==
  lastCall.op = "logged_op" =>
    /\ lastCall.runs = 1
    /\ Len(lastCall.out) = 2
    /\ lastCall.out[1] = <<"LOG", "Starting", "raising_op">>
    /\ IF lastCall.env.raises # ""
       THEN /\ lastCall.out[2] = <<"LOG", "failed", "raising_op">>
            /\ lastCall.res = Raise(lastCall.env.raises, "operation failed")
       ELSE /\ lastCall.out[2] = <<"LOG", "completed", "raising_op">>
            /\ lastCall.res = Ret(LastInput)

\* the wrapped operation raised and the caller received the same error
C12_Witness ==
  /\ lastCall.op = "logged_op"
  /\ lastCall.res = Raise("RuntimeError", "operation failed")
  /\ lastCall.out[2] = <<"LOG", "failed", "raising_op">>

\* the adapter the last direct call was made on, as the call left it
LastAdapter ==
  IF lastCall.op \in {"T2I.process", "T2I._ensure_loaded"}
  THEN text_to_image_model
  ELSE image_caption_model

AdapterOps == {"T2I.process", "T2I._ensure_loaded", "Cap.process", "Cap._ensure_loaded"}

\* C14: _ensure_loaded loads on the first call only: a call on an adapter
\* that is not loaded runs _load_model once, and once a load has completed
\* every later call, made directly or from process, runs no _load_model
\* and leaves the handle, the loaded flag and the load time as they were.
C14_LoadsOnFirstCallOnly ==
  /\ lastCall.op \in {"T2I._ensure_loaded", "Cap._ensure_loaded"} /\ ~lastCall.before.is_loaded
       => lastCall.loads = 1
  /\ lastCall.op \in AdapterOps /\ lastCall.before.is_loaded
       => /\ lastCall.loads = 0
          /\ LastAdapter = lastCall.before
          /\ LastAdapter.handle = "set"
          /\ LastAdapter.load_time = "set"

\* _ensure_loaded was called on a loaded adapter while the library would
\* have failed a load
C14_Witness ==
  /\ lastCall.op = "T2I._ensure_loaded"
  /\ lastCall.before.is_loaded
  /\ lastCall.env.load = "fail"
  /\ lastCall.res = Ret(None)

\* C15: when loading the model fails inside an adapter's process call, the
\* caller of process receives the model-load error raised by _load_model.
C15_LoadFailureSurfaces ==
  (/\ lastCall.op \in {"T2I.process", "Cap.process"}
   /\ lastCall.loads = 1
   /\ ~LastAdapter.is_loaded)
    => /\ lastCall.res.kind = "raise"
       /\ lastCall.res.exc = "RuntimeError"

\* the values of the arguments, whatever objects carry them
Values(args) == [i \in 1..Len(args) |-> args[i].v]

\* the successful calls made before the last call
Earlier ==
  IF lastCall.res.kind = "ret" THEN SubSeq(history, 1, Len(history) - 1) ELSE history

\* C13: a call of the cached operation whose arguments equal those of an
\* earlier successful call returns the earlier result without running the
\* underlying operation, and no step removes or replaces a cache entry.
C13_EqualArgumentsHitCache ==
  /\ [](lastCall.op = "process_with_conditional_text" =>
         \A i \in 1..Len(Earlier) :
           (/\ Values(Earlier[i].args) = Values(lastCall.args)
            /\ Earlier[i].kwargs = lastCall.kwargs)
             => (/\ lastCall.res = Ret(Earlier[i].val)
                 /\ lastCall.runs = 0))
  /\ [][/\ Len(cache') >= Len(cache)
        /\ \A i \in 1..Len(cache) : cache'[i] = cache[i]]_vars

\* the threads that ran _load_model on the adapter
Loaders == {t \in Slots : callers[t].ranLoad}

\* C16: nothing in the adapter synchronizes the lazy load: as long as no
\* thread has executed the assignment of line 50 the flag reads false,
\* whatever the other threads are doing, so every thread that tests it in
\* that window goes on to load, and _load_model has run once for each
\* thread that read the flag as false and passed line 48.
C16_LazyLoadRace ==
  /\ (\A t \in Slots : ~callers[t].setFlag) => ~text_to_image_model.is_loaded
  /\ \A t \in Slots :
       /\ callers[t].pc \in {"load", "set_time", "set_flag"} => ~callers[t].sawLoaded
       /\ callers[t].pc \in {"set_time", "set_flag"} => callers[t].ranLoad
       /\ callers[t].pc = "infer" => (callers[t].ranLoad <=> ~callers[t].sawLoaded)
       /\ callers[t].ranLoad => ~callers[t].sawLoaded

\* two threads both read the flag as false and both ran _load_model
C16_Witness ==
  \E t1, t2 \in Slots :
    /\ t1 # t2
    /\ {t1, t2} \subseteq Loaders
    /\ ~callers[t1].sawLoaded /\ ~callers[t2].sawLoaded
    /\ text_to_image_model.is_loaded

\* the path the last call of the file handler was given
LastPath == lastCall.args[Len(lastCall.args)].f

\* the paths whose extension, in lower case, is one of jpg, jpeg, png, bmp,
\* tiff, webp
SupportedPaths == {"photo.png", "scan.JPG", "shot.Png"}

\* C17: load_image raises FileNotFoundError for every path that does not
\* exist, whatever its extension; for a path that exists with an
\* unsupported extension it raises the unsupported-format error whether
\* or not the file can be decoded; and for an existing file with a
\* supported extension that cannot be decoded it raises the load error.
C17_LoadImageCheckOrder ==
  lastCall.op = "load_image" =>
    LET fs == disk[LastPath]
    IN /\ fs.st = "missing" =>
            lastCall.res = Raise("FileNotFoundError", "Image file not found")
       /\ fs.st # "missing" /\ LastPath \notin SupportedPaths =>
            lastCall.res = Raise("ValueError", "Unsupported image format")
       /\ fs.st = "corrupt" /\ LastPath \in SupportedPaths =>
            lastCall.res = Raise("ValueError", "Failed to load image")

\* load_image was called on a path with an unsupported extension that
\* does not exist
C17_Witness ==
  /\ lastCall.op = "load_image"
  /\ LastPath = "notes.txt"
  /\ disk["notes.txt"].st = "missing"
  /\ lastCall.res.exc = "FileNotFoundError"

\* C18: for a path with a supported extension in any letter case,
\* load_image returns an image when the file exists and is well formed,
\* and browse_image_file returns the selected path; for an existing file
\* or a selection with any other extension both raise the
\* unsupported-format error.
C18_SupportedExtensions ==
  /\ lastCall.op = "load_image" /\ disk[LastPath].st = "ok" =>
       IF LastPath \in SupportedPaths
       THEN lastCall.res.kind = "ret" /\ lastCall.res.val.t = "image"
       ELSE lastCall.res = Raise("ValueError", "Unsupported image format")
  /\ lastCall.op = "browse_image_file" /\ LastPath # "" =>
       IF LastPath \in SupportedPaths
       THEN lastCall.res = Ret(PathValue(LastPath))
       ELSE lastCall.res = Raise("ValueError", "Unsupported image format")

\* load_image returned an image for a well-formed file named in upper case
C18_Witness ==
  /\ lastCall.op = "load_image"
  /\ LastPath = "scan.JPG"
  /\ lastCall.res.kind = "ret"
  /\ lastCall.res.val.t = "image"

\* C19: every image load_image returns is normalized: the image of a file
\* of mode RGBA, LA or P is returned in mode RGB with the size of the
\* file, so no returned image has one of those modes.
C19_LoadImageNormalizes ==
  lastCall.op = "load_image" /\ lastCall.res.kind = "ret" =>
    /\ lastCall.res.val.mode \notin {"RGBA", "LA", "P"}
    /\ lastCall.res.val.size = disk[LastPath].size
    /\ disk[LastPath].mode \in {"RGBA", "LA", "P"} => lastCall.res.val.mode = "RGB"

\* load_image returned the image of a palette file
C19_Witness ==
  /\ lastCall.op = "load_image"
  /\ lastCall.res.kind = "ret"
  /\ disk[LastPath].mode = "P"
  /\ lastCall.res.val.mode = "RGB"

\* C20: whenever save_image returns the path chosen in the save dialog,
\* a following load_image on that path returns an image of the width and
\* height of the saved image, in mode RGB.
C20_SaveLoadRoundTrip ==
  lastCall.op = "save_image;load_image" =>
    /\ lastCall.res.kind = "ret"
    /\ lastCall.res.val.size = lastCall.args[1].size
    /\ lastCall.res.val.mode = "RGB"

\* the last step was a call of one of ops
Called(ops) == lastCall'.n = lastCall.n + 1 /\ lastCall'.op \in ops

\* C21: browse_image_file opens its dialog at the remembered directory, as
\* the save dialogs do; cancelled, it returns None and the remembered
\* directory stays; on a selection with an unsupported extension it raises
\* and the remembered directory stays; on a supported selection it returns
\* the path and the remembered directory becomes the directory of the path.
C21_BrowseRemembersDirectory ==
  /\ [][Called({"browse_image_file"}) =>
         LET choice == lastCall'.args[1].f
         IN /\ choice = "" =>
                 lastCall'.res = Ret(None) /\ last_directory' = last_directory
            /\ choice # "" /\ choice \notin SupportedPaths =>
                 lastCall'.res.kind = "raise" /\ last_directory' = last_directory
            /\ choice \in SupportedPaths =>
                 /\ lastCall'.res = Ret(PathValue(choice))
                 /\ last_directory' = Files[choice].dir]_vars
  /\ [][Called({"browse_image_file", "save_image", "save_text"}) =>
         lastCall'.out = <<last_directory>>]_vars

\* a save dialog opened in the directory of the image browsed before
C21_Witness ==
  /\ lastCall.op = "save_image"
  /\ lastCall.n = 2
  /\ lastCall.out = <<"docs">>
  /\ lastCall.res = Ret(None)

\* C22: save_image and save_text, cancelled, return None, write nothing
\* and leave the remembered directory; when the write fails they raise
\* the save error and leave the remembered directory; when it succeeds
\* they return the chosen path, the file holds the content and the
\* remembered directory becomes the directory of the path.
C22_SaveOutcomes ==
  [][Called({"save_image", "save_text"}) =>
      LET choice == lastCall'.args[2].f
          res == lastCall'.res
      IN /\ choice = "" =>
              res = Ret(None) /\ disk' = disk /\ last_directory' = last_directory
         /\ choice # "" /\ lastCall'.env.write # "ok" => res.kind = "raise"
         /\ res.kind = "raise" =>
              /\ res.exc = "ValueError"
              /\ res.msg \in {"Failed to save image", "Failed to save text"}
              /\ last_directory' = last_directory
         /\ choice # "" /\ res.kind = "ret" =>
              /\ res = Ret(PathValue(choice))
              /\ disk'[choice].st = (IF lastCall'.op = "save_text" THEN "text" ELSE "ok")
              /\ last_directory' = Files[choice].dir]_vars

\* a write failed after the directory had been remembered from another save
C22_Witness ==
  /\ lastCall.op = "save_image"
  /\ lastCall.n = 2
  /\ lastCall.res.kind = "raise"
  /\ lastCall.args[2].f = "scan.JPG"
  /\ last_directory = "pics"

\* C23: the logger is a singleton set up once: every AppLogger() returns the
\* one object __new__ allocated, _setup_logger has run exactly once after
\* any number of constructions, and a later construction leaves the bound
\* logger and its handler list as they were.
C23_LoggerSingleton ==
  /\ [](app_logger.n >= 1 =>
          /\ app_logger.created = 1 /\ app_logger.instance = 1
          /\ app_logger.returned = 1
          /\ app_logger.setups = 1
          /\ app_logger.logger = "AIModelApp"
          /\ \A i \in DOMAIN app_logger.handlers : app_logger.handlers[i].made = 1)
  /\ [][app_logger.n >= 1 =>
          /\ app_logger'.handlers = app_logger.handlers
          /\ app_logger'.logger = app_logger.logger
          /\ app_logger'.instance = app_logger.instance]_vars

\* constructed three times, the first with the log file unopenable: still
\* the one console handler of the first set-up
C23_Witness ==
  /\ app_logger.n = 3
  /\ app_logger.handlers = <<[kind |-> "console", made |-> 1]>>
  /\ app_logger.setups = 1

\* C24: the request a worker processes is the one _process_input validated.
\* Validation passes a text-to-image request only with a non-blank prompt
\* and a captioning request only with a selected image, so the prompt a
\* worker reads at line 339 is non-blank and the path it reads at line 349
\* is non-empty.
C24_WorkerUsesValidatedRequest ==
  [][\A w \in Slots :
       /\ (workers[w].pc = "get_text" /\ workers'[w].pc # "get_text")
            => strip(text_input) # <<>>
       /\ (workers[w].pc = "load_image" /\ workers'[w].pc # "load_image")
            => selected_image_path # ""]_vars

\* C25: whenever the save control is enabled the output area holds a result
\* an adapter produced (an image in the image display or a caption in the
\* text output), and _processing_complete never runs for a request whose
\* model load failed.
C25_SaveEnabledMeansResult ==
  /\ [](save_button = "normal"
          => \/ image_display.image.t = "image"
             \/ text_output.val.t = "caption")
  /\ [][RunsHead({"complete"}) => ~workers[Head(after_queue).w].loadFailed]_vars

\* the output area is cleared and the save control disabled
OutputCleared ==
  /\ image_display = clear_image
  /\ text_output.val = Str(<<>>)
  /\ save_button = "disabled"

\* C26: a mode change clears the output and disables the save control, and
\* a result is displayed or made savable only under the mode its request
\* started in, so a display callback runs under the mode whose branch
\* scheduled it.
C26_ModeChangeDiscardsOldResults ==
  /\ [][mode_combo' # mode_combo => OutputCleared']_vars
  /\ [][RunsHead({"display_image"}) => current_mode = "text_to_image"]_vars
  /\ [][RunsHead({"display_text"}) => current_mode = "image_to_caption"]_vars

\* the body of the last process call ran and failed, in the model load or
\* in the inference
BodyFailed ==
  /\ lastCall.op \in {"T2I.process", "Cap.process"}
  /\ lastCall.runs = 1
  /\ ~LastAdapter.is_loaded \/ lastCall.env.infer = "fail"

\* the log records of the last call with the given outcome word
Logged(word) ==
  {i \in DOMAIN lastCall.out : lastCall.out[i][1] = "LOG" /\ lastCall.out[i][2] = word}

\* C27: an adapter's process call whose body fails is logged as failed, and
\* a completed record is written only for a call whose body produced a
\* result.
C27_FailedBodyLoggedFailed ==
  BodyFailed => Logged("failed") # {} /\ Logged("completed") = {}

\* _load_model ran during the last call and raised
FailedLoad ==
  /\ lastCall.op \in AdapterOps
  /\ lastCall.loads = 1
  /\ lastCall.env.load = "fail"

\* C28: a failed load leaves the adapter unloaded.  In every state a loaded
\* adapter has its handle and its load time set; a call during which
\* _load_model raised leaves the loaded flag false and the load time unset;
\* and the call that follows a failed load on the same adapter, once past
\* validation, runs _load_model again.
C28_FailedLoadLeavesUnloaded ==
  /\ [](\A ad \in {text_to_image_model, image_caption_model} :
          ad.is_loaded => ad.load_time = "set" /\ ad.handle = "set")
  /\ [](FailedLoad => ~LastAdapter.is_loaded /\ LastAdapter.load_time = "None")
  /\ [][(/\ FailedLoad
          /\ Called({lastCall.op})
          /\ (lastCall'.op \in {"T2I._ensure_loaded", "Cap._ensure_loaded"}
                \/ lastCall'.runs = 1))
         => lastCall'.loads = 1]_vars

\* a process call ran _load_model, the load failed, and the caller got None
C28_Witness ==
  /\ lastCall.op = "Cap.process"
  /\ lastCall.loads = 1
  /\ lastCall.env.load = "fail"
  /\ ~image_caption_model.is_loaded
  /\ image_caption_model.load_time = "None"
  /\ lastCall.n = 2
  /\ lastCall.before = NewAdapter("ImageCaptionModel")

\* the conditional text of the last call of the cached operation
LastText == IF Len(lastCall.args) > 2 THEN lastCall.args[3].v.s ELSE <<>>

\* C29: the cached operation never returns a value computed for a different
\* argument tuple: whatever it returns is the caption of the image and the
\* conditional text it was called with, and a call that raises propagates
\* the error and leaves the cache as it was.
C29_NoForeignCacheValue ==
  /\ [](lastCall.op = "process_with_conditional_text" /\ lastCall.res.kind = "ret"
          => lastCall.res.val = CondCaption(lastCall.args[2].v, LastText))
  /\ [][(Called({"process_with_conditional_text"}) /\ lastCall'.res.kind = "raise")
         => cache' = cache /\ lastCall'.res.exc = "RuntimeError"]_vars

\* the result the adapter returned to the worker whose callback is at the
\* head of the queue
HeadResult == workers[Head(after_queue).w].produced

\* C30: on the success path the result is displayed before the trigger is
\* released: a request's display callback is ahead of its completion
\* callback in the queue, and when _processing_complete re-enables the
\* trigger for a request whose adapter call returned a result, the output
\* shows that result.
C30_DisplayBeforeRelease ==
  /\ [](\A i, j \in 1..Len(after_queue) :
          (/\ after_queue[i].w = after_queue[j].w
           /\ after_queue[i].cb \in {"display_image", "display_text"}
           /\ after_queue[j].cb = "complete") => i < j)
  /\ [][(/\ RunsHead({"complete"})
          /\ HeadResult.t \in {"image", "caption"})
         => \/ HeadResult.t = "image" /\ image_display'.image = HeadResult
            \/ HeadResult.t = "caption" /\ text_output'.val = HeadResult]_vars

====
